---- MODULE Spec2Model ----
(***************************************************************************)
(* Model of nanochat/mamba.py: module load (capability check for the      *)
(* external mixer), MambaBlock / MambaModel construction, init_weights,   *)
(* forward, generate and setup_optimizers.                                 *)
(*                                                                         *)
(* Numeric abstraction.  Tensors are modelled with one integer channel    *)
(* per position (the embedding width is 1 for the arithmetic, while the   *)
(* config keeps n_embd for everything that reads it as a number).  With   *)
(* one channel F.rms_norm is the sign function, SiLU is rounded to the    *)
(* nearest integer, and softmax is computed in fixed point.  Random       *)
(* draws come from a linear congruential generator standing for a torch   *)
(* generator: a state, and a next-state function.  Execution is assumed   *)
(* to happen under the pipeline's autocast context (dtypes are not        *)
(* modelled).                                                              *)
(***************************************************************************)
EXTENDS Integers, Sequences, FiniteSets, TLC

VARIABLES
    mamba_ssm,        \* environment: is the external package importable
    loaded,           \* has nanochat/mamba.py been imported
    MAMBA_AVAILABLE,  \* module global set by the try/except at import
    Mamba,            \* what the module-global name `Mamba` is bound to
    printed,          \* the print0 calls made so far, in order
    default_rng,      \* state of torch's default (global) generator
    model,            \* the MambaModel most recently constructed
    hasModel,         \* whether `model` holds a constructed model
    lastConstruct,    \* outcome of the last MambaModel(config) call
    nConstructed,     \* number of MambaModel(config) calls made
    blocksBuilt,      \* number of MambaBlock objects constructed (ghost)
    optimizers,       \* outcome of the last setup_optimizers call
    lastForward,      \* outcome of the last direct forward(idx, targets) call
    gen,              \* the generator object of the current generate() call
    prevGen           \* the exhausted generator of the previous call

vars == <<mamba_ssm, loaded, MAMBA_AVAILABLE, Mamba, printed, default_rng,
          model, hasModel, lastConstruct, nConstructed, blocksBuilt,
          optimizers, lastForward, gen, prevGen>>

-----------------------------------------------------------------------------
(* Bounds of the model *)

VocabSize == 3
MaxLayer == 2
MaxModels == 2
MaxPromptLen == 1
MaxTokens == 2
MaxBatch == 1
MaxTime == 2
RngModulus == 8
SoftmaxScale == 16

(* Program constants *)

softcap == 15
d_state_default == 16
d_conv_default == 4
expand_default == 2
LrBaseDim == 768

Vocab == 0 .. (VocabSize - 1)
NEmbds == {192, 768}
None == <<>>
Temperatures == {-1, 0, 2}
Seeds == {0, 1}
TopKs == {None} \cup {<<k>> : k \in 0 .. (VocabSize + 1)}

-----------------------------------------------------------------------------
(* Generic helpers *)

Max2(a, b) == IF a >= b THEN a ELSE b
Min2(a, b) == IF a <= b THEN a ELSE b

RECURSIVE SumSeq(_)
SumSeq(s) == IF s = <<>> THEN 0 ELSE Head(s) + SumSeq(Tail(s))

RECURSIVE Pow2(_)
Pow2(n) == IF n <= 0 THEN 1 ELSE 2 * Pow2(n - 1)

-----------------------------------------------------------------------------
(* Random sources: a generator is its state; one draw advances it. *)

RngNext(s) == (5 * s + 3) % RngModulus

ManualSeed(seed) == seed % RngModulus

\* A zero-mean sample (normal_ / the default nn.Linear initialisation),
\* as a function of the uniform draw u.
Sample(u) == (u % 5) - 2

\* n consecutive samples drawn from generator state s: <<values, new state>>
RECURSIVE DrawSamples(_, _)
DrawSamples(n, s) ==
    IF n = 0 THEN [vals |-> <<>>, rng |-> s]
    ELSE LET s1 == RngNext(s)
             rest == DrawSamples(n - 1, s1)
         IN  [vals |-> <<Sample(s1)>> \o rest.vals, rng |-> rest.rng]

-----------------------------------------------------------------------------
(* Module load: lines 24-30 and the alias on line 268 *)

Warning(text, layer) == [text |-> text, layer |-> layer]

\* try: from mamba_ssm import Mamba ... except ImportError: print0(...)
TryImport ==
    IF mamba_ssm
    THEN [available |-> TRUE, binding |-> "mamba_ssm.Mamba", out |-> <<>>]
    ELSE [available |-> FALSE, binding |-> "unbound",
          out |-> <<Warning("mamba_ssm not available", -1)>>]

\* Mamba = MambaModel, executed at the end of the module body
Alias(binding) == "MambaModel"

LoadModule ==
    /\ ~loaded
    /\ loaded' = TRUE
    /\ MAMBA_AVAILABLE' = TryImport.available
    /\ Mamba' = Alias(TryImport.binding)
    /\ printed' = printed \o TryImport.out
    /\ UNCHANGED <<mamba_ssm, default_rng, model, hasModel, lastConstruct,
                   nConstructed, blocksBuilt, optimizers, lastForward, gen,
                   prevGen>>

-----------------------------------------------------------------------------
(* MambaConfig (lines 32-40) *)

MambaConfig(n_layer, n_embd) ==
    [vocab_size |-> VocabSize, n_layer |-> n_layer, n_embd |-> n_embd,
     d_state |-> d_state_default, d_conv |-> d_conv_default,
     expand |-> expand_default]

Configs == {MambaConfig(l, e) : l \in 1 .. MaxLayer, e \in NEmbds}

-----------------------------------------------------------------------------
(* MambaBlock.__init__ (lines 49-76) *)

\* What calling the module-global name `Mamba` with the keyword arguments
\* d_model, d_state, d_conv, expand does.  MambaModel.__init__(self, config)
\* accepts none of these keywords, so calling it this way raises TypeError.
CallMamba(binding, d_model, d_state, d_conv, expand) ==
    IF binding = "mamba_ssm.Mamba"
    THEN [ok |-> TRUE,
          mixer |-> [kind |-> "Mamba",
                     args |-> <<d_model, d_state, d_conv, expand>>,
                     bias |-> TRUE]]
    ELSE [ok |-> FALSE,
          mixer |-> [kind |-> "TypeError", args |-> <<>>, bias |-> FALSE]]

\* nn.Linear(in_features, out_features, bias=False)
Linear(in_features, out_features) ==
    [kind |-> "Linear", args |-> <<in_features, out_features>>, bias |-> FALSE]

\* nn.SiLU()
SiLUModule == [kind |-> "SiLU", args |-> <<>>, bias |-> FALSE]

\* Variant: the fallback warning is given for the first layer only.
FallbackWarningFirstLayer(layer_idx) ==
    IF layer_idx = 0 THEN <<Warning("linear fallback", layer_idx)>> ELSE <<>>

\* print0(f"Warning: Using linear fallback for Mamba layer {layer_idx}")
FallbackWarning(layer_idx) == <<Warning("linear fallback", layer_idx)>>

\* One block: the mixer by MAMBA_AVAILABLE, then the feed-forward
\* Sequential(Linear(d, 4d), SiLU, Linear(4d, d)).  Each created layer draws
\* its default random weight from the default generator.
MambaBlock(config, layer_idx, available, binding, rng) ==
    LET d_model == config.n_embd
        call == CallMamba(binding, d_model, config.d_state, config.d_conv,
                          config.expand)
        mixer == IF available THEN call.mixer ELSE Linear(d_model, d_model)
        draws == DrawSamples(3, rng)
    IN  [ok |-> (~available) \/ call.ok,
         out |-> IF available THEN <<>> ELSE FallbackWarning(layer_idx),
         rng |-> draws.rng,
         block |-> [layer_idx |-> layer_idx,
                    mixer |-> mixer,
                    w_mixer |-> draws.vals[1],
                    mlp |-> <<Linear(d_model, 4 * d_model), SiLUModule,
                              Linear(4 * d_model, d_model)>>,
                    c_fc |-> draws.vals[2],
                    c_proj |-> draws.vals[3]]]

\* [MambaBlock(config, layer_idx) for layer_idx in range(config.n_layer)]:
\* stops at the first block whose constructor raises.
RECURSIVE BuildBlocks(_, _, _, _, _)
BuildBlocks(config, layer_idx, available, binding, rng) ==
    IF layer_idx >= config.n_layer
    THEN [ok |-> TRUE, blocks |-> <<>>, out |-> <<>>, rng |-> rng]
    ELSE LET b == MambaBlock(config, layer_idx, available, binding, rng)
         IN  IF ~b.ok
             THEN [ok |-> FALSE, blocks |-> <<>>, out |-> b.out, rng |-> rng]
             ELSE LET rest == BuildBlocks(config, layer_idx + 1, available,
                                          binding, b.rng)
                  IN  [ok |-> rest.ok,
                       blocks |-> <<b.block>> \o rest.blocks,
                       out |-> b.out \o rest.out,
                       rng |-> rest.rng]

-----------------------------------------------------------------------------
(* MambaModel.__init__ (lines 103-117) *)

NoModel ==
    [config |-> MambaConfig(0, 0), wte |-> <<>>, blocks |-> <<>>,
     lm_head |-> <<>>, tied |-> FALSE, after_init |-> FALSE]

\* wte, then the blocks in order, then lm_head.
NewModel(config, available, binding, rng) ==
    LET e == DrawSamples(config.vocab_size, rng)
        h == BuildBlocks(config, 0, available, binding, e.rng)
        u == DrawSamples(config.vocab_size, h.rng)
    IN  [ok |-> h.ok,
         out |-> h.out,
         nblocks |-> Len(h.blocks),
         rng |-> IF h.ok THEN u.rng ELSE h.rng,
         model |-> [config |-> config, wte |-> e.vals, blocks |-> h.blocks,
                    lm_head |-> u.vals, tied |-> FALSE,
                    after_init |-> FALSE]]

Construct(config) ==
    /\ loaded
    /\ nConstructed < MaxModels
    /\ gen.status = "none"
    /\ LET r == NewModel(config, MAMBA_AVAILABLE, Mamba, default_rng)
       IN  /\ lastConstruct' = [outcome |-> IF r.ok THEN "ok" ELSE "TypeError",
                                config |-> config]
           /\ model' = IF r.ok THEN r.model ELSE model
           /\ hasModel' = (hasModel \/ r.ok)
           /\ printed' = printed \o r.out
           /\ default_rng' = r.rng
           /\ blocksBuilt' = blocksBuilt + r.nblocks
    /\ nConstructed' = nConstructed + 1
    /\ UNCHANGED <<mamba_ssm, loaded, MAMBA_AVAILABLE, Mamba, optimizers,
                   lastForward, gen, prevGen>>

-----------------------------------------------------------------------------
(* Caller-side weight tying: lm_head.weight is rebound to the embedding   *)
(* table's parameter object (both have shape (vocab_size, n_embd)).  This *)
(* is the one way the three module subtrees of __init__ can come to share *)
(* a parameter.                                                            *)

TieWeights ==
    /\ hasModel
    /\ ~model.tied
    /\ gen.status = "none"
    /\ model' = [model EXCEPT !.tied = TRUE, !.lm_head = model.wte,
                              !.after_init = FALSE]
    /\ UNCHANGED <<mamba_ssm, loaded, MAMBA_AVAILABLE, Mamba, printed,
                   default_rng, hasModel, lastConstruct, nConstructed,
                   blocksBuilt, optimizers, lastForward, gen, prevGen>>

-----------------------------------------------------------------------------
(* init_weights / _init_weights (lines 119-140) *)

Zeros(n) == [i \in 1 .. n |-> 0]

\* Names under which the feed-forward container exposes attributes:
\* nn.Sequential registers its children as "0", "1", "2".
MlpAttrs(block) == {"0", "1", "2"}

\* if hasattr(block.mlp, 'c_proj') ... elif hasattr(block.mlp, '2') ...
ZeroBlockProjection(block) ==
    IF "c_proj" \in MlpAttrs(block) THEN [block EXCEPT !.c_proj = 0]
    ELSE IF "2" \in MlpAttrs(block) THEN [block EXCEPT !.c_proj = 0]
    ELSE block

\* self.apply(self._init_weights) over the blocks, in module order: every
\* nn.Linear weight is redrawn (mixer, mlp[0], mlp[2]).
RECURSIVE ApplyInitBlocks(_, _)
ApplyInitBlocks(blocks, rng) ==
    IF blocks = <<>> THEN [blocks |-> <<>>, rng |-> rng]
    ELSE LET d == DrawSamples(3, rng)
             b == [Head(blocks) EXCEPT !.w_mixer = d.vals[1],
                                       !.c_fc = d.vals[2],
                                       !.c_proj = d.vals[3]]
             rest == ApplyInitBlocks(Tail(blocks), d.rng)
         IN  [blocks |-> <<b>> \o rest.blocks, rng |-> rest.rng]

\* The generic pass: embedding, blocks, lm_head, each redrawn.
ApplyInit(m, rng) ==
    LET e == DrawSamples(m.config.vocab_size, rng)
        h == ApplyInitBlocks(m.blocks, e.rng)
        u == DrawSamples(m.config.vocab_size, h.rng)
    IN  [rng |-> u.rng,
         model |-> [m EXCEPT !.wte = IF m.tied THEN u.vals ELSE e.vals,
                             !.blocks = h.blocks,
                             !.lm_head = u.vals]]

\* The two targeted zeroings, after the generic pass.
ZeroTargets(m) ==
    LET V == m.config.vocab_size
    IN  [m EXCEPT !.lm_head = Zeros(V),
                  !.wte = IF m.tied THEN Zeros(V) ELSE m.wte,
                  !.blocks = [i \in 1 .. Len(m.blocks) |->
                                 ZeroBlockProjection(m.blocks[i])]]

\* Variant: the targeted zeroings run before the generic pass.
init_weights_zero_first(m, rng) == ApplyInit(ZeroTargets(m), rng)

init_weights(m, rng) ==
    LET a == ApplyInit(m, rng)
    IN  [rng |-> a.rng, model |-> ZeroTargets(a.model)]

InitWeights ==
    /\ hasModel
    /\ ~model.after_init
    /\ gen.status = "none"
    /\ LET r == init_weights(model, default_rng)
       IN  /\ model' = [r.model EXCEPT !.after_init = TRUE]
           /\ default_rng' = r.rng
    /\ UNCHANGED <<mamba_ssm, loaded, MAMBA_AVAILABLE, Mamba, printed,
                   hasModel, lastConstruct, nConstructed, blocksBuilt,
                   optimizers, lastForward, gen, prevGen>>

-----------------------------------------------------------------------------
(* forward (lines 43-45, 78-86, 197-228) *)

Sign(x) == IF x > 0 THEN 1 ELSE IF x < 0 THEN -1 ELSE 0

\* F.rms_norm over the last axis, one channel: x / sqrt(x^2 + eps)
norm(x) == Sign(x)

\* x * sigmoid(x), rounded to the nearest integer
SiLU(z) == IF z > 0 THEN z ELSE 0

\* softcap * tanh(logits / softcap): odd, monotone, bounded by softcap
SoftCap(l) == IF l > softcap THEN softcap
              ELSE IF l < 0 - softcap THEN 0 - softcap ELSE l

RECURSIVE PrefixSum(_, _)
PrefixSum(xs, t) == IF t = 0 THEN 0 ELSE xs[t] + PrefixSum(xs, t - 1)

\* self.mixer(y): the dense fallback acts on each position alone; the
\* external primitive is a causal transform of the whole sequence.
MixerApply(block, ys) ==
    IF block.mixer.kind = "Linear"
    THEN [t \in 1 .. Len(ys) |-> block.w_mixer * ys[t]]
    ELSE [t \in 1 .. Len(ys) |-> block.w_mixer * PrefixSum(ys, t)]

\* self.mlp(y) = Linear(SiLU(Linear(y))), per position
MlpApply(block, y) == block.c_proj * SiLU(block.c_fc * y)

\* MambaBlock.forward
BlockForward(block, xs) ==
    LET n1 == [t \in 1 .. Len(xs) |-> norm(xs[t])]
        mx == MixerApply(block, n1)
        x1 == [t \in 1 .. Len(xs) |-> xs[t] + mx[t]]
    IN  [t \in 1 .. Len(xs) |-> x1[t] + MlpApply(block, norm(x1[t]))]

RECURSIVE BlocksForward(_, _)
BlocksForward(blocks, xs) ==
    IF blocks = <<>> THEN xs
    ELSE BlocksForward(Tail(blocks), BlockForward(Head(blocks), xs))

\* Inference-mode forward of one row of token ids: the capped logits at
\* every position, each a sequence indexed by token id + 1.
RowLogits(m, row) ==
    LET x0 == [t \in 1 .. Len(row) |-> norm(m.wte[row[t] + 1])]
        xh == BlocksForward(m.blocks, x0)
    IN  [t \in 1 .. Len(row) |->
            [j \in 1 .. m.config.vocab_size |->
                SoftCap(m.lm_head[j] * norm(xh[t]))]]

Logits(m, idx) == [b \in 1 .. Len(idx) |-> RowLogits(m, idx[b])]

RECURSIVE Numel(_)
Numel(shape) == IF shape = <<>> THEN 1 ELSE Head(shape) * Numel(Tail(shape))

\* targets.view(-1): possible unless the tensor is non-contiguous with more
\* than one axis longer than 1.
ViewFlatOk(shape, contiguous) ==
    contiguous \/ Cardinality({i \in 1 .. Len(shape) : shape[i] > 1}) <= 1

\* forward(idx, targets): the outcome and, in inference mode, the logits.
\* F.cross_entropy compares logits.view(-1, V).size(0) = B*T with the
\* length of targets.view(-1).
forward(m, idx, has_targets, tshape, contiguous) ==
    LET B == Len(idx)
        T == Len(idx[1])
        logits == Logits(m, idx)
    IN  IF ~has_targets
        THEN [outcome |-> "logits", logits |-> logits]
        ELSE IF ~ViewFlatOk(tshape, contiguous)
        THEN [outcome |-> "RuntimeError", logits |-> <<>>]
        ELSE IF B * T # Numel(tshape)
        THEN [outcome |-> "ValueError", logits |-> <<>>]
        ELSE [outcome |-> "loss", logits |-> <<>>]

Batches == UNION {[1 .. B -> [1 .. T -> Vocab]] :
                     B \in 1 .. MaxBatch, T \in 1 .. MaxTime}

TargetShapes(B, T) ==
    {<<B, T>>, <<T, B>>, <<B * T>>, <<B, T + 1>>, <<B + 1, T>>}

NoForward ==
    [outcome |-> "none", idx |-> <<>>, has_targets |-> FALSE,
     tshape |-> <<>>, contiguous |-> TRUE, logits |-> <<>>,
     after_init |-> FALSE]

ForwardCall(idx, has_targets, tshape, contiguous) ==
    /\ LET r == forward(model, idx, has_targets, tshape, contiguous)
       IN  lastForward' = [outcome |-> r.outcome, idx |-> idx,
                           has_targets |-> has_targets, tshape |-> tshape,
                           contiguous |-> contiguous, logits |-> r.logits,
                           after_init |-> model.after_init]
    /\ UNCHANGED <<mamba_ssm, loaded, MAMBA_AVAILABLE, Mamba, printed,
                   default_rng, model, hasModel, lastConstruct, nConstructed,
                   blocksBuilt, optimizers, gen, prevGen>>

-----------------------------------------------------------------------------
(* Parameters of the module tree (nn.Module.parameters) *)

WteSlot == <<"transformer.wte", -1, "weight">>
LmHeadSlot == <<"lm_head", -1, "weight">>

BlockSlots(block) ==
    <<<<"transformer.h", block.layer_idx, "mixer.weight">>,
      <<"transformer.h", block.layer_idx, "mlp.0.weight">>,
      <<"transformer.h", block.layer_idx, "mlp.2.weight">>>>

RECURSIVE HSlots(_)
HSlots(blocks) ==
    IF blocks = <<>> THEN <<>>
    ELSE BlockSlots(Head(blocks)) \o HSlots(Tail(blocks))

\* The parameter object an attribute slot holds.
ParamObj(m, slot) == IF slot = LmHeadSlot /\ m.tied THEN WteSlot ELSE slot

Range(s) == {s[i] : i \in 1 .. Len(s)}

\* parameters() yields each parameter object once, in traversal order.
RECURSIVE Dedup(_, _)
Dedup(s, seen) ==
    IF s = <<>> THEN <<>>
    ELSE IF Head(s) \in seen THEN Dedup(Tail(s), seen)
    ELSE <<Head(s)>> \o Dedup(Tail(s), seen \cup {Head(s)})

Parameters(m, slots) ==
    Dedup([i \in 1 .. Len(slots) |-> ParamObj(m, slots[i])], {})

\* self.parameters(): transformer (wte, h), then lm_head
AllSlots(m) == <<WteSlot>> \o HSlots(m.blocks) \o <<LmHeadSlot>>

-----------------------------------------------------------------------------
(* setup_optimizers (lines 160-195) *)

\* (model_dim / 768) ** -0.5, for the widths whose scale is a whole number
dmodel_lr_scale(model_dim) ==
    CHOOSE k \in 1 .. LrBaseDim : k * k * model_dim = LrBaseDim

\* Variant: no check at all.
AssertNothing(all, matrix_params, embedding_params, lm_head_params) == TRUE

\* assert len(list(self.parameters())) == len(matrix_params)
\*            + len(embedding_params) + len(lm_head_params)
AssertParamCount(all, matrix_params, embedding_params, lm_head_params) ==
    Len(all) = Len(matrix_params) + Len(embedding_params) + Len(lm_head_params)

Group(params, lr) == [params |-> params, lr |-> lr, initial_lr |-> -1]

\* AdamWFactory(adam_groups, **adamw_kwargs): the groups as given
AdamW(ddp, adam_groups) ==
    [kind |-> IF ddp THEN "DistAdamW" ELSE "AdamW", param_groups |-> adam_groups]

\* MuonFactory(matrix_params, lr=matrix_lr, momentum=0.95): the interior
\* parameters, every group at the default lr
Muon(ddp, matrix_params, lr) ==
    [kind |-> IF ddp THEN "DistMuon" ELSE "Muon",
     param_groups |-> <<Group(matrix_params, lr)>>]

\* for group in opt.param_groups: group["initial_lr"] = group["lr"]
SnapshotGroups(opt) ==
    [opt EXCEPT !.param_groups =
        [i \in 1 .. Len(opt.param_groups) |->
            [opt.param_groups[i] EXCEPT !.initial_lr = opt.param_groups[i].lr]]]

\* Variant: only the first optimizer's groups are snapshotted.
SnapshotFirstOnly(opts) ==
    [i \in 1 .. Len(opts) |-> IF i = 1 THEN SnapshotGroups(opts[i]) ELSE opts[i]]

\* for opt in optimizers: ...
SnapshotInitialLr(opts) == [i \in 1 .. Len(opts) |-> SnapshotGroups(opts[i])]

setup_optimizers(m, unembedding_lr, embedding_lr, matrix_lr, ddp) ==
    LET model_dim == m.config.n_embd
        matrix_params == Parameters(m, HSlots(m.blocks))
        embedding_params == Parameters(m, <<WteSlot>>)
        lm_head_params == Parameters(m, <<LmHeadSlot>>)
        all == Parameters(m, AllSlots(m))
        groups == <<matrix_params, embedding_params, lm_head_params>>
    IN  IF ~AssertParamCount(all, matrix_params, embedding_params,
                             lm_head_params)
        THEN [outcome |-> "AssertionError", opts |-> <<>>, groups |-> groups]
        ELSE LET scale == dmodel_lr_scale(model_dim)
                 adam_groups ==
                     <<Group(lm_head_params, unembedding_lr * scale),
                       Group(embedding_params, embedding_lr * scale)>>
                 adamw_optimizer == AdamW(ddp, adam_groups)
                 muon_optimizer == Muon(ddp, matrix_params, matrix_lr)
             IN  [outcome |-> "ok",
                  opts |-> SnapshotInitialLr(<<adamw_optimizer,
                                               muon_optimizer>>),
                  groups |-> groups]

\* Learning rates in units of 1e-3; the first of each is the default.
UnembeddingLrs == {4, 8}
EmbeddingLrs == {200}
MatrixLrs == {20, 10}

NoOptimizers ==
    [outcome |-> "none", opts |-> <<>>, groups |-> <<>>, self |-> NoModel,
     unembedding_lr |-> 0, embedding_lr |-> 0, matrix_lr |-> 0]

SetupOptimizers(unembedding_lr, embedding_lr, matrix_lr, ddp) ==
    /\ LET r == setup_optimizers(model, unembedding_lr, embedding_lr,
                                 matrix_lr, ddp)
       IN  optimizers' = [outcome |-> r.outcome, opts |-> r.opts,
                          groups |-> r.groups, self |-> model,
                          unembedding_lr |-> unembedding_lr,
                          embedding_lr |-> embedding_lr,
                          matrix_lr |-> matrix_lr]
    /\ UNCHANGED <<mamba_ssm, loaded, MAMBA_AVAILABLE, Mamba, printed,
                   default_rng, model, hasModel, lastConstruct, nConstructed,
                   blocksBuilt, lastForward, gen, prevGen>>

\* A learning-rate schedule step of the caller: one group's lr is set to a
\* multiple of its initial_lr (multipliers in halves).
LrMultipliers == {1}

LrSchedule(i, j, halves) ==
    /\ optimizers.outcome = "ok"
    /\ i \in 1 .. Len(optimizers.opts)
    /\ j \in 1 .. Len(optimizers.opts[i].param_groups)
    /\ optimizers' =
          [optimizers EXCEPT !.opts[i].param_groups[j].lr =
              (optimizers.opts[i].param_groups[j].initial_lr * halves) \div 2]
    /\ UNCHANGED <<mamba_ssm, loaded, MAMBA_AVAILABLE, Mamba, printed,
                   default_rng, model, hasModel, lastConstruct, nConstructed,
                   blocksBuilt, lastForward, gen, prevGen>>

-----------------------------------------------------------------------------
(* generate (lines 230-264) *)

NoRng == -1

\* rng = None; if temperature > 0: rng = torch.Generator(); rng.manual_seed(seed)
MakeRng(temperature, seed) ==
    IF temperature > 0 THEN ManualSeed(seed) ELSE NoRng

\* Variant: top_k is used unclamped.
TopKUnclamped(top_k, V) == top_k

\* min(top_k, logits.size(-1))
TopKCount(top_k, V) == Min2(top_k, V)

\* for _ in range(max_tokens): the number of iterations
LoopCount(max_tokens) == Max2(max_tokens, 0)

RECURSIVE MaxOf(_)
MaxOf(s) == IF Len(s) = 1 THEN s[1] ELSE Max2(Head(s), MaxOf(Tail(s)))

RECURSIVE RemoveFirst(_, _)
RemoveFirst(s, x) ==
    IF s = <<>> THEN <<>>
    ELSE IF Head(s) = x THEN Tail(s)
    ELSE <<Head(s)>> \o RemoveFirst(Tail(s), x)

\* torch.topk(logits, k): the k largest values, in descending order
RECURSIVE TopKValues(_, _)
TopKValues(s, k) ==
    IF k = 0 \/ s = <<>> THEN <<>>
    ELSE LET mx == MaxOf(s)
         IN  <<mx>> \o TopKValues(RemoveFirst(s, mx), k - 1)

AllKept(last) == [j \in 1 .. Len(last) |-> TRUE]

\* Variant: nothing is masked.
TopKMaskNone(last, v) == AllKept(last)

\* logits[logits < v[:, [-1]]] = -inf: which entries stay finite
TopKMask(last, v) == [j \in 1 .. Len(last) |-> ~(last[j] < v[Len(v)])]


\* softmax(logits / temperature) in fixed point: the largest kept entry
\* gets SoftmaxScale, an entry d below it SoftmaxScale / 2^(d / temperature),
\* a masked entry (-inf) gets 0.
Softmax(last, kept, temperature) ==
    LET top == MaxOf([j \in 1 .. Len(last) |->
                        IF kept[j] THEN last[j] ELSE 0 - softcap])
    IN  [j \in 1 .. Len(last) |->
            IF kept[j]
            THEN SoftmaxScale \div Pow2((top - last[j]) \div temperature)
            ELSE 0]

RECURSIVE Cumulative(_, _)
Cumulative(probs, j) == IF j = 0 THEN 0 ELSE probs[j] + Cumulative(probs, j - 1)

\* torch.multinomial(probs, 1, generator): inverse-CDF draw with the
\* uniform number u of RngModulus; an entry of probability 0 is never drawn.
Multinomial(probs, u) ==
    LET pick == (u * SumSeq(probs)) \div RngModulus
        j == CHOOSE i \in 1 .. Len(probs) :
                 /\ Cumulative(probs, i) > pick
                 /\ \A h \in 1 .. (i - 1) : Cumulative(probs, h) <= pick
    IN  j - 1

\* torch.argmax over the masked logits: the first index of the maximum
Argmax(last, kept) ==
    LET j == CHOOSE i \in 1 .. Len(last) :
                 /\ kept[i]
                 /\ \A h \in 1 .. Len(last) : kept[h] => last[h] <= last[i]
                 /\ \A h \in 1 .. (i - 1) : ~(kept[h] /\ last[h] = last[i])
    IN  j - 1

\* Variant: the running sequence is replaced by the new id.
CatDropsPrefix(ids, token) == <<token>>

\* torch.cat((ids, next_ids), dim=1)
Cat(ids, token) == Append(ids, token)

NoGen ==
    [status |-> "none", tokens |-> <<>>, max_tokens |-> 0, temperature |-> 0,
     top_k |-> None, seed |-> 0, started |-> FALSE, rng |-> NoRng,
     ids |-> <<>>, i |-> 0, out |-> <<>>, inputs |-> <<>>, lasts |-> <<>>,
     error |-> "", stops |-> 0]

\* Calling generate(...) creates the generator; its body has not run yet.
NewGen(tokens, max_tokens, temperature, top_k, seed) ==
    [NoGen EXCEPT !.status = "suspended", !.tokens = tokens,
                  !.max_tokens = max_tokens, !.temperature = temperature,
                  !.top_k = top_k, !.seed = seed]

\* Lines 236-243, run by the first next()
Preamble(g) ==
    IF g.started THEN g
    ELSE [g EXCEPT !.started = TRUE,
                   !.rng = MakeRng(g.temperature, g.seed),
                   !.ids = g.tokens]

Raise(g, error) == [g EXCEPT !.status = "raised", !.error = error]

\* One pass of the loop body (lines 248-264) on generator g of model m.
\* own = TRUE: the multinomial draw uses the call's own generator.
Iteration(m, g, dflt, own) ==
    LET V == m.config.vocab_size
        ids == g.ids
        logits == Logits(m, <<ids>>)
        g1 == [g EXCEPT !.inputs = Append(g.inputs, ids)]
    IN  IF Len(ids) = 0
        THEN [gen |-> Raise(g1, "IndexError"), dflt |-> dflt]
        ELSE
        LET last == logits[1][Len(ids)]
            k == IF g.top_k = None THEN 0 ELSE TopKCount(g.top_k[1], V)
            g2 == [g1 EXCEPT !.lasts = Append(g1.lasts, last)]
        IN  IF g.top_k # None /\ (k < 0 \/ k > V)
            THEN [gen |-> Raise(g2, "RuntimeError"), dflt |-> dflt]
            ELSE IF g.top_k # None /\ k = 0
            THEN [gen |-> Raise(g2, "IndexError"), dflt |-> dflt]
            ELSE
            LET kept == IF g.top_k = None THEN AllKept(last)
                        ELSE TopKMask(last, TopKValues(last, k))
                src == IF own THEN g.rng ELSE dflt
                drawn == RngNext(src)
                token == IF g.temperature > 0
                         THEN Multinomial(Softmax(last, kept, g.temperature),
                                          drawn)
                         ELSE Argmax(last, kept)
                sampled == g.temperature > 0
            IN  [gen |-> [g2 EXCEPT !.ids = Cat(ids, token),
                                    !.out = Append(g.out, token),
                                    !.i = g.i + 1,
                                    !.rng = IF sampled /\ own THEN drawn
                                            ELSE g.rng],
                 dflt |-> IF sampled /\ ~own THEN drawn ELSE dflt]

\* Variant: multinomial without generator=, drawing from the default one.
GenIterationDefaultRng(m, g, dflt) == Iteration(m, g, dflt, FALSE)

\* multinomial(..., generator=rng)
GenIteration(m, g, dflt) == Iteration(m, g, dflt, TRUE)

\* next(generator): resume the body until the next yield, the end of the
\* loop (StopIteration) or an exception.
ResumeGen(m, g, dflt) ==
    LET g0 == Preamble(g)
    IN  IF g0.i < LoopCount(g0.max_tokens)
        THEN GenIteration(m, g0, dflt)
        ELSE [gen |-> [g0 EXCEPT !.status = "exhausted"], dflt |-> dflt]

Prompts == UNION {[1 .. n -> Vocab] : n \in 0 .. MaxPromptLen}

Finished(g) == g.status \in {"exhausted", "raised"}

\* A call of generate(tokens, max_tokens, temperature, top_k, seed).
Generate(tokens, max_tokens, temperature, top_k, seed) ==
    /\ gen' = NewGen(tokens, max_tokens, temperature, top_k, seed)
    /\ UNCHANGED <<mamba_ssm, loaded, MAMBA_AVAILABLE, Mamba, printed,
                   default_rng, model, hasModel, lastConstruct, nConstructed,
                   blocksBuilt, optimizers, lastForward>>

\* The first call on the model.
GenerateFirst(tokens, max_tokens, temperature, top_k, seed) ==
    /\ prevGen' = prevGen
    /\ Generate(tokens, max_tokens, temperature, top_k, seed)

\* A second call, after the first generator was drained, with the same
\* prompt, max_tokens, temperature and top_k and any seed.
GenerateAgain(seed) ==
    /\ prevGen' = gen
    /\ Generate(gen.tokens, gen.max_tokens, gen.temperature, gen.top_k, seed)

\* The consumer pulls the next item.
GenNext ==
    /\ gen.status = "suspended"
    /\ LET r == ResumeGen(model, gen, default_rng)
       IN  /\ gen' = r.gen
           /\ default_rng' = r.dflt
    /\ UNCHANGED <<mamba_ssm, loaded, MAMBA_AVAILABLE, Mamba, printed,
                   model, hasModel, lastConstruct, nConstructed,
                   blocksBuilt, optimizers, lastForward, prevGen>>

\* next() on a finished generator raises StopIteration and yields nothing.
NextAfterEnd ==
    /\ Finished(gen)
    /\ gen.stops = 0
    /\ gen' = [gen EXCEPT !.stops = 1]
    /\ UNCHANGED <<mamba_ssm, loaded, MAMBA_AVAILABLE, Mamba, printed,
                   default_rng, model, hasModel, lastConstruct, nConstructed,
                   blocksBuilt, optimizers, lastForward, prevGen>>

-----------------------------------------------------------------------------
(* Specifications *)

\* Before nanochat/mamba.py is imported.
Init ==
    /\ mamba_ssm \in BOOLEAN
    /\ loaded = FALSE
    /\ MAMBA_AVAILABLE = FALSE
    /\ Mamba = "unbound"
    /\ printed = <<>>
    /\ default_rng \in 0 .. (RngModulus - 1)
    /\ model = NoModel
    /\ hasModel = FALSE
    /\ lastConstruct = [outcome |-> "none", config |-> MambaConfig(0, 0)]
    /\ nConstructed = 0
    /\ blocksBuilt = 0
    /\ optimizers = NoOptimizers
    /\ lastForward = NoForward
    /\ gen = NoGen
    /\ prevGen = NoGen

DoConstruct == \E config \in Configs : Construct(config)

\* The first MambaModel(config) call of the process.
ConstructFirst == nConstructed = 0 /\ DoConstruct

DoForward ==
    /\ hasModel
    /\ lastForward.outcome = "none"
    /\ \E idx \in Batches, has_targets \in BOOLEAN, contiguous \in BOOLEAN :
          \E tshape \in TargetShapes(Len(idx), Len(idx[1])) :
             /\ has_targets \/ (contiguous /\ tshape = <<Len(idx), Len(idx[1])>>)
             /\ ForwardCall(idx, has_targets, tshape, contiguous)

DoSetup ==
    /\ hasModel
    /\ \E u \in UnembeddingLrs, e \in EmbeddingLrs, x \in MatrixLrs,
       ddp \in BOOLEAN : SetupOptimizers(u, e, x, ddp)

DoSchedule ==
    \E i \in 1 .. 2, j \in 1 .. 2, h \in LrMultipliers : LrSchedule(i, j, h)

DoGenerate ==
    /\ hasModel
    /\ gen.status = "none"
    /\ \E tokens \in Prompts, max_tokens \in 0 .. MaxTokens,
          temperature \in Temperatures, top_k \in TopKs, seed \in Seeds :
           GenerateFirst(tokens, max_tokens, temperature, top_k, seed)

DoGenerateAgain ==
    /\ Finished(gen)
    /\ gen.stops = 1
    /\ prevGen.status = "none"
    /\ \E seed \in Seeds : GenerateAgain(seed)

\* Module load and model construction.
NextLoad == LoadModule \/ DoConstruct
SpecLoad == Init /\ [][NextLoad]_vars

\* Construction, weight initialisation and direct forward calls.
NextForward == LoadModule \/ ConstructFirst \/ TieWeights \/ InitWeights \/ DoForward
SpecForward == Init /\ [][NextForward]_vars

\* Construction and optimizer assembly.
NextOpt == LoadModule \/ ConstructFirst \/ TieWeights \/ DoSetup \/ DoSchedule
SpecOpt == Init /\ [][NextOpt]_vars

\* Generation on a constructed model.
NextGen == LoadModule \/ ConstructFirst \/ DoGenerate \/ GenNext
              \/ NextAfterEnd \/ DoGenerateAgain
SpecGen == Init /\ [][NextGen]_vars

-----------------------------------------------------------------------------
(* Claims about module load and construction (SpecLoad) *)

ExternalMixer(config) ==
    [kind |-> "Mamba",
     args |-> <<config.n_embd, config.d_state, config.d_conv, config.expand>>,
     bias |-> TRUE]

DenseFallback(config) ==
    [kind |-> "Linear", args |-> <<config.n_embd, config.n_embd>>,
     bias |-> FALSE]

\* C7: if the external primitive was imported when the module was loaded,
\* constructing a model succeeds and every block's mixer is the external
\* primitive built with (d_model = n_embd, d_state, d_conv, expand); the
\* dense fallback is installed only when the primitive is unavailable.
C7_ExternalMixerWhenAvailable ==
    /\ (loaded /\ MAMBA_AVAILABLE /\ lastConstruct.outcome # "none") =>
           /\ lastConstruct.outcome = "ok"
           /\ hasModel
           /\ \A i \in 1 .. Len(model.blocks) :
                  model.blocks[i].mixer = ExternalMixer(model.config)
    /\ (hasModel /\ \E i \in 1 .. Len(model.blocks) :
                        model.blocks[i].mixer.kind = "Linear") => ~MAMBA_AVAILABLE

\* C8 as stated: with the primitive missing, load and construction do not
\* fail and fall back to the dense map, and exactly one warning is emitted
\* in total, however many models are constructed.
C8_ExactlyOneWarning ==
    (loaded /\ ~MAMBA_AVAILABLE) =>
        /\ lastConstruct.outcome \in {"none", "ok"}
        /\ hasModel => \A i \in 1 .. Len(model.blocks) :
                           model.blocks[i].mixer = DenseFallback(model.config)
        /\ Len(printed) = 1

\* C8 as amended: with the primitive missing, load and construction do not
\* fail and fall back to the dense map; the warning routine is called once
\* at module load and once more for every block constructed.
C8_OneWarningPerBlock ==
    (loaded /\ ~MAMBA_AVAILABLE) =>
        /\ lastConstruct.outcome \in {"none", "ok"}
        /\ (lastConstruct.outcome = "ok") = hasModel
        /\ hasModel =>
              /\ Len(model.blocks) = model.config.n_layer
              /\ \A i \in 1 .. Len(model.blocks) :
                     model.blocks[i].mixer = DenseFallback(model.config)
        /\ Len(printed) = 1 + blocksBuilt
        /\ printed[1].text = "mamba_ssm not available"
        /\ \A i \in 2 .. Len(printed) : printed[i].text = "linear fallback"

\* Two models built without the primitive, one of them with two layers.
C8_Witness ==
    /\ loaded /\ ~MAMBA_AVAILABLE
    /\ nConstructed = 2
    /\ blocksBuilt >= 3
    /\ Len(printed) >= 4

-----------------------------------------------------------------------------
(* Claims about forward and init_weights (SpecForward) *)

IdxShape(idx) == <<Len(idx), Len(idx[1])>>

\* C6: every call forward(ids, targets) in which the shape of targets
\* differs from the shape (B, T) of ids raises and returns no loss, also
\* when targets has as many elements as ids (shape (T, B), or flat B*T).
C6_ShapeMismatchRaises ==
    (lastForward.outcome # "none" /\ lastForward.has_targets
        /\ lastForward.tshape # IdxShape(lastForward.idx)) =>
        lastForward.outcome \in {"ValueError", "RuntimeError"}

AllZero(s) == \A i \in 1 .. Len(s) : s[i] = 0

\* C10: immediately after init_weights() the output projection's weight and
\* the final dense map of every block's feed-forward sub-layer are exactly
\* zero, and an inference-mode forward on any input returns logits that
\* are all exactly zero.
C10_ZeroAfterInit ==
    /\ (hasModel /\ model.after_init) =>
           /\ Len(model.lm_head) = model.config.vocab_size
           /\ AllZero(model.lm_head)
           /\ Len(model.blocks) = model.config.n_layer
           /\ \A i \in 1 .. Len(model.blocks) : model.blocks[i].c_proj = 0
    /\ (lastForward.outcome = "logits" /\ lastForward.after_init) =>
           \A b \in 1 .. Len(lastForward.logits) :
               /\ Len(lastForward.logits[b]) = Len(lastForward.idx[b])
               /\ \A t \in 1 .. Len(lastForward.logits[b]) :
                      /\ Len(lastForward.logits[b][t]) = VocabSize
                      /\ AllZero(lastForward.logits[b][t])

\* A two-layer model whose embedding and first feed-forward map are not
\* zero, right after init_weights, run on a two-token input.
C10_Witness ==
    /\ hasModel /\ model.after_init
    /\ model.config.n_layer = 2
    /\ \E i \in 1 .. Len(model.wte) : model.wte[i] # 0
    /\ \A i \in 1 .. Len(model.blocks) :
           model.blocks[i].c_fc # 0 /\ model.blocks[i].w_mixer # 0
    /\ lastForward.outcome = "logits" /\ lastForward.after_init
    /\ Len(lastForward.idx[1]) = 2

-----------------------------------------------------------------------------
(* Claims about setup_optimizers (SpecOpt) *)

ModelParams(m) == {ParamObj(m, AllSlots(m)[i]) : i \in 1 .. Len(AllSlots(m))}

GroupsHolding(groups, p) ==
    Cardinality({g \in 1 .. Len(groups) : p \in Range(groups[g])})

\* Every parameter of the model is in exactly one of the groups, and the
\* groups hold nothing else.
IsPartition(m, groups) ==
    /\ \A p \in ModelParams(m) : GroupsHolding(groups, p) = 1
    /\ \A g \in 1 .. Len(groups) : Range(groups[g]) \subseteq ModelParams(m)

C9_InitialLrSnapshot ==
    (optimizers.outcome = "ok") =>
        LET d == optimizers.self.config.n_embd
            adamw == optimizers.opts[1]
            muon == optimizers.opts[2]
            Scaled(x, lr) == x > 0 /\ x * x * d = lr * lr * LrBaseDim
        IN  /\ Len(optimizers.opts) = 2
            /\ adamw.kind \in {"AdamW", "DistAdamW"}
            /\ muon.kind \in {"Muon", "DistMuon"}
            /\ Len(adamw.param_groups) = 2
            /\ adamw.param_groups[1].params = <<LmHeadSlot>>
            /\ Scaled(adamw.param_groups[1].initial_lr,
                      optimizers.unembedding_lr)
            /\ adamw.param_groups[2].params = <<WteSlot>>
            /\ Scaled(adamw.param_groups[2].initial_lr,
                      optimizers.embedding_lr)
            /\ Len(muon.param_groups) >= 1
            /\ \A j \in 1 .. Len(muon.param_groups) :
                   /\ muon.param_groups[j].initial_lr = optimizers.matrix_lr
                   /\ Range(muon.param_groups[j].params) \subseteq
                          Range(HSlots(optimizers.self.blocks))

\* Optimizers of a width-192 model (s = 2) after the schedule has changed
\* the lr of a group of each optimizer.
C9_Witness ==
    /\ optimizers.outcome = "ok"
    /\ optimizers.self.config.n_embd = 192
    /\ optimizers.opts[1].param_groups[1].lr
           # optimizers.opts[1].param_groups[1].initial_lr
    /\ optimizers.opts[2].param_groups[1].lr
           # optimizers.opts[2].param_groups[1].initial_lr

-----------------------------------------------------------------------------
(* Claims about generate (SpecGen) *)

InVocab(s) == \A i \in 1 .. Len(s) : s[i] \in Vocab

C1_Domain(g) ==
    \/ g.max_tokens = 0
    \/ /\ Len(g.tokens) >= 1
       /\ g.top_k = None \/ g.top_k[1] >= 1

C2_FullPrefixEachStep ==
    (gen.status # "none" /\ gen.started) =>
        /\ gen.ids = gen.tokens \o gen.out
        /\ Len(gen.inputs) >= Len(gen.out)
        /\ Len(gen.inputs) <= Len(gen.out) + 1
        /\ Len(gen.inputs) = Len(gen.out) + 1 => gen.status = "raised"
        /\ \A i \in 1 .. Len(gen.inputs) :
               gen.inputs[i] = gen.tokens \o SubSeq(gen.out, 1, i - 1)
        /\ gen.temperature <= 0 => gen.rng = NoRng

\* Two steps were taken from a one-token prompt.
C2_Witness ==
    /\ gen.status = "suspended"
    /\ Len(gen.tokens) = 1
    /\ Len(gen.out) = 2
    /\ Len(gen.inputs) = 2
    /\ gen.out[1] # gen.tokens[1]

RECURSIVE Advance(_, _)
Advance(s, n) == IF n = 0 THEN s ELSE Advance(RngNext(s), n - 1)

\* C3: two calls with the same prompt, model state, max_tokens, temperature
\* and top_k produce identical outputs when temperature = 0 (whatever the
\* seeds) and when temperature > 0 and the seeds are equal; the generator is
\* seeded once at the start of the call and advanced by nothing but the
\* call's own draws.
C3_Reproducible ==
    /\ (Finished(gen) /\ prevGen.status # "none"
           /\ (gen.temperature <= 0 \/ gen.seed = prevGen.seed)) =>
           /\ gen.out = prevGen.out
           /\ gen.status = prevGen.status
    /\ (gen.started /\ gen.temperature > 0) =>
           gen.rng = Advance(gen.seed % RngModulus, Len(gen.out))

\* A sampled call repeated with the same seed, both drained, with logits
\* that leave the draw a choice.
C3_Witness ==
    /\ Finished(gen) /\ Finished(prevGen)
    /\ gen.temperature > 0
    /\ gen.seed = prevGen.seed
    /\ Len(gen.out) = MaxTokens
    /\ gen.out[1] # gen.out[2]

Above(last, j) == Cardinality({h \in 1 .. Len(last) : last[h] > last[j]})

\* C4: for every positive top_k, also one above vocab_size (clamped, not
\* failing), every id emitted at a step has a last-position logit at that
\* step that is at least the k-th largest one, k = min(top_k, vocab_size),
\* under greedy selection and under sampling.
C4_TopKRespected ==
    (gen.status # "none" /\ gen.top_k # None /\ gen.top_k[1] >= 1) =>
        LET k == IF gen.top_k[1] <= VocabSize THEN gen.top_k[1] ELSE VocabSize
        IN  /\ Len(gen.lasts) >= Len(gen.out)
            /\ \A i \in 1 .. Len(gen.out) :
                   Above(gen.lasts[i], gen.out[i] + 1) < k
            /\ (gen.status = "raised") => Len(gen.tokens) = 0

\* A sampled step with top_k = 1 whose logits are not all equal.
C4_Witness ==
    /\ gen.top_k = <<1>>
    /\ gen.temperature > 0
    /\ Len(gen.out) >= 1
    /\ \E j \in 1 .. VocabSize : Above(gen.lasts[1], j) >= 1

====
